---- MODULE Spec2Model ----
(***************************************************************************)
(* WebRTCWebSink (webrtcwebsink/plugin.py): a GStreamer bin that fans one  *)
(* raw video feed out to one encoder branch per WebRTC client.             *)
(*                                                                         *)
(* The model covers encoder selection (find_best_encoder), the branch      *)
(* builder (create_webrtcbin) with every failure path, and the lifecycle   *)
(* handler (do_change_state, start_servers, stop_servers).  GStreamer and  *)
(* the socket layer are the environment: an element factory, a pad request *)
(* or a link may fail, Gst.Bin.add refuses an element whose name is taken, *)
(* Gst.Bin.remove unlinks the element it removes, bind fails on a port     *)
(* that is held.                                                           *)
(*                                                                         *)
(* Specifications: Spec (the lifecycle with builds), SpecBuild (the active *)
(* element under every input and failure), SpecFind (find_best_encoder on  *)
(* its own), SpecConcurrent (builds interleaved statement by statement),   *)
(* SpecFlow (buffers through the tee and the queues).                      *)
(***************************************************************************)
EXTENDS Integers, Sequences, FiniteSets, TLC

\* Bound on the number of create_webrtcbin calls in one behaviour.
MaxCalls == 2

\* Bound on the number of factories in a registry that find_best_encoder is
\* run against on its own.
MaxFactories == 3

\* Bound on the number of create_webrtcbin calls that run at the same time.
MaxBuilders == 2

\* Bound on the number of buffers the producer pushes into the tee.
MaxBuffers == 4

\* The number of buffers a queue holds when it is full.
QueueSize == 2

(***************************************************************************)
(* Inputs                                                                  *)
(***************************************************************************)

\* Python None, as a client id and as a codec preference.
None == "None"

\* Client ids handed in by the signaling server; None is the default argument.
ClientIds == {"A", "B", None}

\* Codec preferences handed in by the signaling server.
CodecPreferences == {None, "vp8", "h264", "bogus"}

\* Values the video-codec property is set to.
DefaultCodecs == {"vp8", "h264"}

(***************************************************************************)
(* The GStreamer registry: element factories in discovery order.           *)
(***************************************************************************)

vp8enc ==
    [name |-> "vp8enc", klass |-> "Codec/Encoder/Video",
     src_caps |-> {"video/x-vp8"}, rank |-> 256]

x264enc ==
    [name |-> "x264enc", klass |-> "Codec/Encoder/Video",
     src_caps |-> {"video/x-h264"}, rank |-> 256]

nvh264enc ==
    [name |-> "nvh264enc", klass |-> "Codec/Encoder/Video/Hardware",
     src_caps |-> {"video/x-h264"}, rank |-> 512]

openh264enc ==
    [name |-> "openh264enc", klass |-> "Encoder/Video",
     src_caps |-> {"video/x-h264"}, rank |-> 256]

h264parse ==
    [name |-> "h264parse", klass |-> "Codec/Parser/Converter/Video",
     src_caps |-> {"video/x-h264"}, rank |-> 257]

\* The registries the element is run against.
Registries ==
    { <<>>,
      <<vp8enc>>,
      <<h264parse, openh264enc, x264enc>>,
      <<vp8enc, x264enc, nvh264enc>> }

\* Every factory of the model.
Factories == {vp8enc, x264enc, nvh264enc, openh264enc, h264parse}

\* The registries of at most n factories, in every discovery order.
RegistriesUpTo(n) ==
    UNION {{s \in [1..m -> Factories] : \A i, j \in 1..m : i # j => s[i] # s[j]}
           : m \in 0..n}

\* 'enc' in factory.get_name()  (every name holding 'encoder' holds 'enc').
NameHasEnc(name) == name \in {"vp8enc", "x264enc", "nvh264enc", "openh264enc"}

\* 'encoder' in factory.get_metadata('klass').lower()
KlassHasEncoder(klass) ==
    klass \in {"Codec/Encoder/Video", "Codec/Encoder/Video/Hardware", "Encoder/Video"}

\* Substring tests of the tuning block on the selected encoder's name.
NameHas(name, sub) ==
    CASE sub = "x264" -> name \in {"x264enc"}
      [] sub = "nvh264" -> name \in {"nvh264enc"}
      [] sub = "vaapi" -> FALSE
      [] OTHER -> FALSE

(***************************************************************************)
(* find_best_encoder                                                       *)
(***************************************************************************)

KnownCodecs == {"vp8", "h264", "vp9", "av1"}

codec_caps(codec_name) ==
    CASE codec_name = "vp8" -> "video/x-vp8"
      [] codec_name = "h264" -> "video/x-h264"
      [] codec_name = "vp9" -> "video/x-vp9"
      [] codec_name = "av1" -> "video/x-av1"

payloader_map(codec_name) ==
    CASE codec_name = "vp8" -> "rtpvp8pay"
      [] codec_name = "h264" -> "rtph264pay"
      [] codec_name = "vp9" -> "rtpvp9pay"
      [] codec_name = "av1" -> "rtpav1pay"

\* The filter of the registry scan: an encoder by name and klass with a
\* source pad template that intersects the target caps.
IsCandidate(factory, target_caps) ==
    /\ NameHasEnc(factory.name)
    /\ KlassHasEncoder(factory.klass)
    /\ target_caps \in factory.src_caps

RemoveAt(s, i) == SubSeq(s, 1, i - 1) \o SubSeq(s, i + 1, Len(s))

MaxRank(s) == CHOOSE r \in {s[i].rank : i \in 1..Len(s)} :
                  \A j \in 1..Len(s) : s[j].rank <= r

\* A sort by falling rank that puts the last of equal ranks first.
RECURSIVE SortByRankLastWins(_)
SortByRankLastWins(s) ==
    IF s = <<>> THEN <<>>
    ELSE LET i == CHOOSE i \in 1..Len(s) :
                      /\ s[i].rank = MaxRank(s)
                      /\ \A j \in (i + 1)..Len(s) : s[j].rank # MaxRank(s)
         IN <<s[i]>> \o SortByRankLastWins(RemoveAt(s, i))

\* list.sort(key=rank, reverse=True): stable, equal ranks keep their order.
RECURSIVE SortByRank(_)
SortByRank(s) ==
    IF s = <<>> THEN <<>>
    ELSE LET i == CHOOSE i \in 1..Len(s) :
                      /\ s[i].rank = MaxRank(s)
                      /\ \A j \in 1..(i - 1) : s[j].rank # MaxRank(s)
         IN <<s[i]>> \o SortByRank(RemoveAt(s, i))

encoder_factories(reg, codec_name) ==
    SortByRank(SelectSeq(reg, LAMBDA f : IsCandidate(f, codec_caps(codec_name))))

\* A lookup that falls back to a vp8 encoder and keeps the payloader of the
\* codec it was asked for.
FindKeepingPayloader(reg, codec_name) ==
    IF codec_name \notin KnownCodecs
    THEN [encoder |-> None, payloader |-> None, looked |-> <<codec_name>>]
    ELSE IF encoder_factories(reg, codec_name) # <<>>
    THEN [encoder |-> encoder_factories(reg, codec_name)[1].name,
          payloader |-> payloader_map(codec_name),
          looked |-> <<codec_name>>]
    ELSE IF codec_name # "vp8" /\ encoder_factories(reg, "vp8") # <<>>
    THEN [encoder |-> encoder_factories(reg, "vp8")[1].name,
          payloader |-> payloader_map(codec_name),
          looked |-> <<codec_name, "vp8">>]
    ELSE [encoder |-> None, payloader |-> None,
          looked |-> IF codec_name # "vp8" THEN <<codec_name, "vp8">>
                     ELSE <<codec_name>>]

\* The result carries the codec names looked up, in order, next to the pair
\* the code returns.
RECURSIVE find_best_encoder(_, _)
find_best_encoder(reg, codec_name) ==
    IF codec_name \notin KnownCodecs
    THEN [encoder |-> None, payloader |-> None, looked |-> <<codec_name>>]
    ELSE IF encoder_factories(reg, codec_name) = <<>>
    THEN IF codec_name # "vp8"
         THEN LET r == find_best_encoder(reg, "vp8")
              IN [r EXCEPT !.looked = <<codec_name>> \o @]
         ELSE [encoder |-> None, payloader |-> None, looked |-> <<codec_name>>]
    ELSE [encoder |-> encoder_factories(reg, codec_name)[1].name,
          payloader |-> payloader_map(codec_name),
          looked |-> <<codec_name>>]

(***************************************************************************)
(* The bin, the tee and the elements of a branch                           *)
(***************************************************************************)

Roles == {"webrtcbin", "queue", "encoder", "payloader"}

LinkNames == {"tee_queue", "queue_encoder", "encoder_payloader", "payloader_webrtcbin"}

\* The two elements a link joins.
LinkEnds(link) ==
    CASE link = "tee_queue" -> {"tee", "queue"}
      [] link = "queue_encoder" -> {"queue", "encoder"}
      [] link = "encoder_payloader" -> {"encoder", "payloader"}
      [] link = "payloader_webrtcbin" -> {"payloader", "webrtcbin"}

\* An element made by call k of create_webrtcbin.
Element(k, role, client_id, factory) ==
    [k |-> k, role |-> role, client |-> client_id, factory |-> factory]

\* setup_pipeline: convert and tee are in the bin from construction on.
convert == Element(0, "convert", None, "videoconvert")
tee == Element(0, "tee", None, "tee")

\* Every element made with name None.
ElementNameNumbered(e) == [prefix |-> e.role, client |-> None, serial |-> e.k]

\* webrtcbin and queue are made with name None (GStreamer numbers them);
\* encoder and payloader are named after the client id.
ElementName(e) ==
    IF e.role \in {"encoder", "payloader"}
    THEN [prefix |-> e.role, client |-> e.client, serial |-> 0]
    ELSE [prefix |-> e.role, client |-> None, serial |-> e.k]

InBin(bin, k, role) == \E e \in bin : e.k = k /\ e.role = role

\* Gst.Bin.add: refused when the bin holds an element of that name.
BinAdd(bin, e) ==
    IF \E x \in bin : ElementName(x) = ElementName(e) THEN bin ELSE bin \cup {e}

\* Gst.Bin.remove: the element leaves the bin, and its pads are unlinked.
BinRemove(bin, k, role) == {e \in bin : ~(e.k = k /\ e.role = role)}

LinksAfterRemove(links, k, role) ==
    {l \in links : ~(l.k = k /\ role \in LinkEnds(l.link))}

\* Two elements link only when both have the bin as parent.
CanLink(bin, k, link) ==
    \A role \in LinkEnds(link) : role = "tee" \/ InBin(bin, k, role)

(***************************************************************************)
(* create_webrtcbin, one step of the code at a time.  w is the frame of    *)
(* the call together with the shared state it works on.                    *)
(***************************************************************************)

Op(op, arg) == [op |-> op, arg |-> arg]

Log(w, op, arg) == [w EXCEPT !.log = Append(@, Op(op, arg))]

\* One rollback statement of the code.
ApplyOp(w, o) ==
    CASE o.op = "set_null" -> Log(w, "set_null", o.arg)
      [] o.op = "remove" ->
            [Log(w, "remove", o.arg) EXCEPT
                !.bin = BinRemove(@, w.k, o.arg),
                !.links = LinksAfterRemove(@, w.k, o.arg),
                !.bad_removes = IF InBin(w.bin, w.k, o.arg) THEN @ ELSE @ + 1]
      [] o.op = "unlink" ->
            [Log(w, "unlink", o.arg) EXCEPT
                !.links = @ \ {[k |-> w.k, link |-> o.arg]}]
      [] o.op = "release_pad" ->
            [Log(w, "release_pad", o.arg) EXCEPT
                !.tee_pads = @ \ {w.k},
                !.links = @ \ {[k |-> w.k, link |-> "tee_queue"]}]

RECURSIVE ApplyOps(_, _)
ApplyOps(w, ops) ==
    IF ops = <<>> THEN w ELSE ApplyOps(ApplyOp(w, Head(ops)), Tail(ops))

\* return None / return webrtcbin / an exception leaving the call.
Return(w, result) == [w EXCEPT !.pc = "done", !.result = result]

\* The environment fails the step named w.fail.
Fails(w, point) == w.fail = point

RollbackNoEncoder == <<Op("set_null", "webrtcbin"), Op("remove", "webrtcbin")>>

RollbackNoPayloader ==
    <<Op("set_null", "encoder"), Op("set_null", "webrtcbin"), Op("remove", "webrtcbin")>>

RollbackNoPad ==
    <<Op("set_null", "queue"), Op("set_null", "webrtcbin"),
      Op("remove", "queue"), Op("remove", "encoder"),
      Op("remove", "payloader"), Op("remove", "webrtcbin")>>

RollbackTeeLink ==
    <<Op("unlink", "tee_queue"), Op("release_pad", "tee"),
      Op("set_null", "queue"), Op("set_null", "webrtcbin"),
      Op("remove", "encoder"), Op("remove", "payloader"),
      Op("remove", "queue"), Op("remove", "webrtcbin")>>

RollbackLink ==
    <<Op("unlink", "tee_queue"), Op("release_pad", "tee"),
      Op("set_null", "queue"), Op("set_null", "encoder"),
      Op("set_null", "payloader"), Op("set_null", "webrtcbin"),
      Op("remove", "queue"), Op("remove", "encoder"),
      Op("remove", "payloader"), Op("remove", "webrtcbin")>>

\* dict[key] = value on a Python dict.
DictSet(d, key, value) ==
    [x \in (DOMAIN d) \cup {key} |-> IF x = key THEN value ELSE d[x]]

\* del dict[key], tolerant of a missing key.
DictDel(d, key) == [x \in (DOMAIN d) \ {key} |-> d[x]]

\* The properties the tuning block writes on the payloader exist on
\* rtph264pay only.
PayloaderHasProperty(payloader_name, prop) ==
    payloader_name = "rtph264pay" /\ prop \in {"config-interval", "aggregate-mode"}

\* Whether the tuning block writes any encoder property.
TunesEncoder(encoder_name) ==
    \/ NameHas(encoder_name, "x264")
    \/ NameHas(encoder_name, "nvh264")
    \/ NameHas(encoder_name, "vaapi")

\* A link statement and its failure branch.
LinkStep(w, link, next, rollback) ==
    IF Fails(w, "link_" \o link) \/ ~CanLink(w.bin, w.k, link)
    THEN Return(ApplyOps(Log(w, "link_failed", link), rollback), None)
    ELSE [Log(w, "link", link) EXCEPT
             !.links = @ \cup {[k |-> w.k, link |-> link]},
             !.pc = next]

\* The encoder tuning of the h264 block: every write sits inside the try.
TuneEncoder(w) ==
    IF ~TunesEncoder(w.encoder_name) THEN w
    ELSE IF Fails(w, "tune_encoder") THEN Log(w, "tune_failed", "encoder")
    ELSE Log(w, "tune", "encoder")

\* The payloader writes follow the try block: a failing write leaves the call
\* as an exception.
TunePayloader(w) ==
    IF \/ Fails(w, "tune_payloader")
       \/ ~PayloaderHasProperty(w.payloader_name, "config-interval")
       \/ ~PayloaderHasProperty(w.payloader_name, "aggregate-mode")
    THEN Return(Log(w, "tune_failed", "payloader"), "raise")
    ELSE [Log(w, "tune", "payloader") EXCEPT !.pc = "return"]

Step(w) ==
    CASE w.pc = "make_webrtcbin" ->
            IF Fails(w, "make_webrtcbin")
            THEN Return(w, None)
            ELSE [Log(w, "make", "webrtcbin") EXCEPT !.pc = "codec_preference"]
      [] w.pc = "codec_preference" ->
            IF w.client_id # None /\ w.codec_preference # None
            THEN [Log(w, "record_codec", w.codec_preference) EXCEPT
                     !.client_codecs = DictSet(@, w.client_id, w.codec_preference),
                     !.codec_to_use = w.codec_preference,
                     !.pc = "find_encoder"]
            ELSE [w EXCEPT !.codec_to_use = w.video_codec, !.pc = "find_encoder"]
      [] w.pc = "find_encoder" ->
            LET r == find_best_encoder(w.registry, w.codec_to_use)
            IN IF r.encoder = None \/ r.payloader = None
               THEN [Log(w, "find", w.codec_to_use) EXCEPT
                        !.lookups = @ \o r.looked, !.pc = "fallback"]
               ELSE [Log(w, "find", w.codec_to_use) EXCEPT
                        !.lookups = @ \o r.looked,
                        !.encoder_name = r.encoder,
                        !.payloader_name = r.payloader,
                        !.pc = "make_encoder"]
      [] w.pc = "fallback" ->
            LET r == find_best_encoder(w.registry, w.video_codec)
            IN IF r.encoder = None \/ r.payloader = None
               THEN Return(ApplyOps([Log(w, "find", w.video_codec) EXCEPT
                                        !.lookups = @ \o r.looked],
                                    RollbackNoEncoder), None)
               ELSE [Log(w, "find", w.video_codec) EXCEPT
                        !.lookups = @ \o r.looked,
                        !.encoder_name = r.encoder,
                        !.payloader_name = r.payloader,
                        !.pc = "make_encoder"]
      [] w.pc = "make_encoder" ->
            IF Fails(w, "make_encoder")
            THEN Return(ApplyOps(w, RollbackNoEncoder), None)
            ELSE [Log(w, "make", "encoder") EXCEPT !.pc = "make_payloader"]
      [] w.pc = "make_payloader" ->
            IF Fails(w, "make_payloader")
            THEN Return(ApplyOps(w, RollbackNoPayloader), None)
            ELSE [Log(w, "make", "payloader") EXCEPT !.pc = "add_webrtcbin"]
      [] w.pc = "add_webrtcbin" ->
            [Log(w, "add", "webrtcbin") EXCEPT
                !.bin = BinAdd(@, Element(w.k, "webrtcbin", w.client_id, "webrtcbin")),
                !.pc = "make_queue"]
      [] w.pc = "make_queue" ->
            \* queue.set_property runs before the "if not queue" test: a queue
            \* that could not be made raises AttributeError there.
            IF Fails(w, "make_queue")
            THEN Return(w, "raise")
            ELSE [Log(w, "make", "queue") EXCEPT !.pc = "add_queue"]
      [] w.pc = "add_queue" ->
            [Log(w, "add", "queue") EXCEPT
                !.bin = BinAdd(@, Element(w.k, "queue", w.client_id, "queue")),
                !.pc = "add_encoder"]
      [] w.pc = "add_encoder" ->
            [Log(w, "add", "encoder") EXCEPT
                !.bin = BinAdd(@, Element(w.k, "encoder", w.client_id, w.encoder_name)),
                !.pc = "add_payloader"]
      [] w.pc = "add_payloader" ->
            [Log(w, "add", "payloader") EXCEPT
                !.bin = BinAdd(@, Element(w.k, "payloader", w.client_id, w.payloader_name)),
                !.pc = "request_pad"]
      [] w.pc = "request_pad" ->
            IF Fails(w, "request_pad")
            THEN Return(ApplyOps(w, RollbackNoPad), None)
            ELSE [Log(w, "request_pad", "tee") EXCEPT
                     !.tee_pads = @ \cup {w.k}, !.pc = "link_tee_queue"]
      [] w.pc = "link_tee_queue" ->
            LinkStep(w, "tee_queue", "link_queue_encoder", RollbackTeeLink)
      [] w.pc = "link_queue_encoder" ->
            LinkStep(w, "queue_encoder", "link_encoder_payloader", RollbackLink)
      [] w.pc = "link_encoder_payloader" ->
            LinkStep(w, "encoder_payloader", "link_payloader_webrtcbin", RollbackLink)
      [] w.pc = "link_payloader_webrtcbin" ->
            LinkStep(w, "payloader_webrtcbin", "sync", RollbackLink)
      [] w.pc = "sync" ->
            [Log(Log(Log(Log(w, "sync", "queue"), "sync", "encoder"),
                     "sync", "payloader"), "sync", "webrtcbin")
                EXCEPT !.pc = "tune"]
      [] w.pc = "tune" ->
            IF w.codec_to_use = "h264"
            THEN TunePayloader(TuneEncoder(w))
            ELSE [w EXCEPT !.pc = "return"]
      [] w.pc = "return" -> Return(w, "handle")

\* The places where the environment can make a call fail: an element factory,
\* the pad request, a link, a property write of the tuning block.
FailPoints ==
    {"make_webrtcbin", "make_encoder", "make_payloader", "make_queue",
     "request_pad", "link_tee_queue", "link_queue_encoder",
     "link_encoder_payloader", "link_payloader_webrtcbin",
     "tune_encoder", "tune_payloader"}

\* What the environment can do to the step w is about to take; w.env holds
\* the failures it is given to cause.
Choices(w) ==
    {"none"}
    \cup ({w.pc} \cap w.env)
    \cup (IF w.pc = "tune" /\ w.codec_to_use = "h264"
          THEN {"tune_payloader"} \cap w.env
          ELSE {})
    \cup (IF w.pc = "tune" /\ w.codec_to_use = "h264" /\ TunesEncoder(w.encoder_name)
          THEN {"tune_encoder"} \cap w.env
          ELSE {})

\* The frames a call can return with, over every choice of the environment.
RECURSIVE Run(_)
Run(w) ==
    IF w.pc = "done" THEN {w}
    ELSE UNION {Run(Step([w EXCEPT !.fail = f])) : f \in Choices(w)}

(***************************************************************************)
(* State                                                                   *)
(***************************************************************************)

VARIABLES
    registry,         \* Gst.Registry: the element factories, in discovery order
    video_codec,      \* self.video_codec
    client_codecs,    \* self.client_codecs
    bin,              \* the children of the bin
    tee_pads,         \* the request pads of self.tee, by the call that got them
    links,            \* the pad links of the branches
    ncalls,           \* create_webrtcbin calls made so far
    callers,          \* the client id of each call, in order
    handles,          \* calls whose webrtcbin the signaling server holds
    last,             \* frame of the last create_webrtcbin call as it returned
    pc,               \* where the thread inside do_change_state stands
    servers_started,  \* self.servers_started
    http_server,      \* self.http_server
    http_thread,      \* self.http_thread
    signaling,        \* self.signaling
    signaling_thread, \* self.signaling_thread
    rc,               \* what the last do_change_state returned
    last_req,         \* the last transition requested and what it called
    last_call,        \* the last of start_servers / stop_servers to be called
    last_ok,          \* the last of them to run to its end
    found,            \* what the last find_best_encoder call on its own returned
    inflight,         \* the frames of the create_webrtcbin calls under way
    queues,           \* the buffers held by the queue of each branch
    produced,         \* buffers the producer has pushed into the tee
    producer          \* whether the producer's streaming thread runs

build_vars == <<client_codecs, bin, tee_pads, links, ncalls, callers, handles, last,
               found, inflight, queues, produced, producer>>

flow_vars == <<queues, produced, producer>>

life_vars == <<pc, servers_started, http_server, http_thread, signaling,
               signaling_thread, rc, last_req, last_call, last_ok>>

vars == <<registry, video_codec, client_codecs, bin, tee_pads, links, ncalls,
          callers, handles, last, pc, servers_started, http_server, http_thread,
          signaling, signaling_thread, rc, last_req, last_call, last_ok, found,
          inflight, queues, produced, producer>>

\* The frame of call k on entry.
Frame(k, client_id, codec_preference, env) ==
    [pc |-> "make_webrtcbin", k |-> k, client_id |-> client_id,
     codec_preference |-> codec_preference, env |-> env, fail |-> "none",
     registry |-> registry, video_codec |-> video_codec,
     client_codecs |-> client_codecs, bin |-> bin, tee_pads |-> tee_pads,
     links |-> links, codec_to_use |-> None, encoder_name |-> None,
     payloader_name |-> None, result |-> "pending", lookups |-> <<>>,
     log |-> <<>>, bad_removes |-> 0]

\* What is kept of a frame once the call has returned.
Returned(w) ==
    [k |-> w.k, client_id |-> w.client_id, codec_preference |-> w.codec_preference,
     codec_to_use |-> w.codec_to_use, encoder_name |-> w.encoder_name,
     payloader_name |-> w.payloader_name, result |-> w.result,
     lookups |-> w.lookups, log |-> w.log, bad_removes |-> w.bad_removes]

\* No find_best_encoder call on its own yet.
NoFind == [codec_name |-> None, encoder |-> None, payloader |-> None]

NoCall ==
    [k |-> 0, client_id |-> None, codec_preference |-> None, codec_to_use |-> None,
     encoder_name |-> None, payloader_name |-> None, result |-> "pending",
     lookups |-> <<>>, log |-> <<>>, bad_removes |-> 0]

\* __init__ followed by setup_pipeline.
Init ==
    /\ registry \in Registries
    /\ video_codec = "vp8"
    /\ client_codecs = [x \in {} |-> None]
    /\ bin = {convert, tee}
    /\ tee_pads = {}
    /\ links = {}
    /\ ncalls = 0
    /\ callers = <<>>
    /\ handles = {}
    /\ last = NoCall
    /\ pc = "idle"
    /\ servers_started = FALSE
    /\ http_server = None
    /\ http_thread = None
    /\ signaling = None
    /\ signaling_thread = None
    /\ rc = None
    /\ last_req = [transition |-> None, called |-> None]
    /\ last_call = None
    /\ last_ok = None
    /\ found = NoFind
    /\ inflight = <<>>
    /\ queues = <<>>
    /\ produced = 0
    /\ producer = "running"

(***************************************************************************)
(* Property writes                                                         *)
(***************************************************************************)

\* do_set_property('video-codec', value)
do_set_property(value) ==
    /\ video_codec' = value
    /\ value # video_codec
    /\ UNCHANGED <<registry, build_vars, life_vars>>

(***************************************************************************)
(* The signaling thread                                                    *)
(***************************************************************************)

\* The signaling server calls into the element while its thread runs.
SignalingRuns == signaling_thread = "running"

\* A branch: the four elements of one call in the bin, its tee pad, its links.
LiveBranch(b, pads, lks, k) ==
    /\ \A role \in Roles : InBin(b, k, role)
    /\ k \in pads
    /\ \A l \in LinkNames : [k |-> k, link |-> l] \in lks

LiveBranches == {k \in 1..ncalls : LiveBranch(bin, tee_pads, links, k)}

\* create_webrtcbin(client_id, codec_preference), called by the signaling
\* server; env is what the environment can make fail during the call.
create_webrtcbin(client_id, codec_preference, env) ==
    /\ SignalingRuns
    /\ ncalls < MaxCalls
    /\ \E w \in Run(Frame(ncalls + 1, client_id, codec_preference, env)) :
          /\ client_codecs' = w.client_codecs
          /\ bin' = w.bin
          /\ tee_pads' = w.tee_pads
          /\ links' = w.links
          /\ handles' = IF w.result = "handle" THEN handles \cup {w.k} ELSE handles
          /\ last' = Returned(w)
    /\ ncalls' = ncalls + 1
    /\ callers' = Append(callers, client_id)
    /\ UNCHANGED <<registry, video_codec, life_vars, flow_vars, found, inflight>>

\* The client id of the branch of call k.
ClientOf(k) == (CHOOSE e \in bin : e.k = k /\ e.role = "webrtcbin").client

\* teardown(handle) on a client's disconnect: unlink in the reverse order of
\* construction, release the tee pad, drop the elements, discard the
\* client_codecs entry.
teardown(k) ==
    /\ SignalingRuns
    /\ k \in handles
    /\ links' = {l \in links : l.k # k}
    /\ tee_pads' = tee_pads \ {k}
    /\ bin' = {e \in bin : e.k # k}
    /\ client_codecs' = DictDel(client_codecs, ClientOf(k))
    /\ handles' = handles \ {k}
    /\ UNCHANGED <<registry, video_codec, ncalls, callers, last, life_vars, flow_vars, found,
                   inflight>>

(***************************************************************************)
(* do_change_state, start_servers, stop_servers: the thread that changes   *)
(* the element's state, one statement group at a time.                     *)
(***************************************************************************)

Transitions == {"NULL_TO_READY", "READY_TO_NULL"}

\* NULL_TO_READY without the servers_started test.
ShouldStartUnguarded(transition) == transition = "NULL_TO_READY"

\* "if not self.servers_started" under NULL_TO_READY.
ShouldStart(transition) == transition = "NULL_TO_READY" /\ ~servers_started

\* "if self.servers_started" under READY_TO_NULL.
ShouldStop(transition) == transition = "READY_TO_NULL" /\ servers_started

\* The HTTP port is taken while an HTTPServer of this element owns a socket.
PortHeld == http_server # None

\* start_servers raised: do_change_state logs and returns FAILURE.
StartFailed ==
    /\ pc' = "idle"
    /\ rc' = "FAILURE"
    /\ UNCHANGED <<servers_started, last_req, last_call, last_ok>>

do_change_state(transition) ==
    /\ pc = "idle"
    /\ IF ShouldStart(transition)
       THEN /\ pc' = "bind"
            /\ last_req' = [transition |-> transition, called |-> "start_servers"]
            /\ last_call' = "start"
            /\ UNCHANGED rc
       ELSE IF ShouldStop(transition)
       THEN /\ pc' = "stop_http"
            /\ last_req' = [transition |-> transition, called |-> "stop_servers"]
            /\ last_call' = "stop"
            /\ UNCHANGED rc
       ELSE /\ pc' = "idle"
            /\ last_req' = [transition |-> transition, called |-> None]
            /\ rc' = "SUCCESS"
            /\ UNCHANGED last_call
    /\ UNCHANGED <<registry, video_codec, build_vars, servers_started, http_server,
                   http_thread, signaling, signaling_thread, last_ok>>

\* socket(), setsockopt(SO_REUSEADDR), bind(), listen()
start_bind(ok) ==
    /\ pc = "bind"
    /\ IF ok /\ ~PortHeld
       THEN /\ pc' = "http_server"
            /\ UNCHANGED <<servers_started, rc, last_req, last_call, last_ok>>
       ELSE StartFailed
    /\ UNCHANGED <<registry, video_codec, build_vars, http_server, http_thread,
                   signaling, signaling_thread>>

\* self.http_server = HTTPServer(...); self.http_server.socket = sock
start_http_server(ok) ==
    /\ pc = "http_server"
    /\ IF ok
       THEN /\ pc' = "http_thread"
            /\ http_server' = "bound"
            /\ UNCHANGED <<servers_started, rc, last_req, last_call, last_ok>>
       ELSE /\ StartFailed
            /\ UNCHANGED http_server
    /\ UNCHANGED <<registry, video_codec, build_vars, http_thread, signaling,
                   signaling_thread>>

\* self.http_thread = Thread(...); self.http_thread.start()
start_http_thread(ok) ==
    /\ pc = "http_thread"
    /\ IF ok
       THEN /\ pc' = "signaling"
            /\ http_thread' = "running"
            /\ http_server' = "serving"
            /\ UNCHANGED <<servers_started, rc, last_req, last_call, last_ok>>
       ELSE /\ StartFailed
            /\ http_thread' = "created"
            /\ UNCHANGED http_server
    /\ UNCHANGED <<registry, video_codec, build_vars, signaling, signaling_thread>>

\* self.signaling = SignalingServer(self.create_webrtcbin, ...)
start_signaling(ok) ==
    /\ pc = "signaling"
    /\ IF ok
       THEN /\ pc' = "signaling_thread"
            /\ signaling' = "created"
            /\ UNCHANGED <<servers_started, rc, last_req, last_call, last_ok>>
       ELSE /\ StartFailed
            /\ UNCHANGED signaling
    /\ UNCHANGED <<registry, video_codec, build_vars, http_server, http_thread,
                   signaling_thread>>

\* self.signaling_thread = Thread(target=self.signaling.start); .start()
start_signaling_thread(ok) ==
    /\ pc = "signaling_thread"
    /\ IF ok
       THEN /\ pc' = "sleep"
            /\ signaling_thread' = "running"
            /\ UNCHANGED <<servers_started, rc, last_req, last_call, last_ok>>
       ELSE /\ StartFailed
            /\ signaling_thread' = "created"
    /\ UNCHANGED <<registry, video_codec, build_vars, http_server, http_thread,
                   signaling>>

\* time.sleep(0.5); start_servers returns; self.servers_started = True;
\* Gst.Bin.do_change_state
start_sleep ==
    /\ pc = "sleep"
    /\ pc' = "idle"
    /\ servers_started' = TRUE
    /\ rc' = "SUCCESS"
    /\ last_ok' = "start"
    /\ UNCHANGED <<registry, video_codec, build_vars, http_server, http_thread,
                   signaling, signaling_thread, last_req, last_call>>

\* if self.http_server: shutdown(); http_server = None; http_thread = None
stop_http ==
    /\ pc = "stop_http"
    /\ pc' = "stop_signaling"
    /\ IF http_server # None
       THEN http_server' = None /\ http_thread' = None
       ELSE UNCHANGED <<http_server, http_thread>>
    /\ UNCHANGED <<registry, video_codec, build_vars, servers_started, signaling,
                   signaling_thread, rc, last_req, last_call, last_ok>>

\* if self.signaling: stop(); signaling = None; signaling_thread = None;
\* stop_servers returns; self.servers_started = False; Gst.Bin.do_change_state
stop_signaling ==
    /\ pc = "stop_signaling"
    /\ pc' = "idle"
    /\ IF signaling # None
       THEN signaling' = None /\ signaling_thread' = None
       ELSE UNCHANGED <<signaling, signaling_thread>>
    /\ servers_started' = FALSE
    /\ rc' = "SUCCESS"
    /\ last_ok' = "stop"
    /\ UNCHANGED <<registry, video_codec, build_vars, http_server, http_thread,
                   last_req, last_call>>

\* Idle, Starting, Active, Stopping as the element goes through them.
Lifecycle ==
    IF pc \in {"bind", "http_server", "http_thread", "signaling",
               "signaling_thread", "sleep"} THEN "Starting"
    ELSE IF pc \in {"stop_http", "stop_signaling"} THEN "Stopping"
    ELSE IF servers_started THEN "Active"
    ELSE "Idle"

\* The element in every state it goes through: the thread changing its state,
\* and the signaling thread building and tearing down branches of two clients
\* in an environment that fails no step of a build.
Next ==
    \/ \E value \in DefaultCodecs : do_set_property(value)
    \/ \E transition \in Transitions : do_change_state(transition)
    \/ \E ok \in BOOLEAN : start_bind(ok)
    \/ \E ok \in BOOLEAN : start_http_server(ok)
    \/ \E ok \in BOOLEAN : start_http_thread(ok)
    \/ \E ok \in BOOLEAN : start_signaling(ok)
    \/ \E ok \in BOOLEAN : start_signaling_thread(ok)
    \/ start_sleep
    \/ stop_http
    \/ stop_signaling
    \/ \E client_id \in {"A", "B"}, codec_preference \in {None, "h264"} :
          create_webrtcbin(client_id, codec_preference, {})
    \/ \E k \in 1..MaxCalls : teardown(k)

Spec == Init /\ [][Next]_vars

\* The element once its video-codec property has been set and an activation
\* has gone through (Init, do_set_property, NULL_TO_READY, start_servers to
\* its end).
InitActive ==
    /\ registry \in Registries
    /\ video_codec \in DefaultCodecs
    /\ client_codecs = [x \in {} |-> None]
    /\ bin = {convert, tee}
    /\ tee_pads = {}
    /\ links = {}
    /\ ncalls = 0
    /\ callers = <<>>
    /\ handles = {}
    /\ last = NoCall
    /\ pc = "idle"
    /\ servers_started = TRUE
    /\ http_server = "serving"
    /\ http_thread = "running"
    /\ signaling = "created"
    /\ signaling_thread = "running"
    /\ rc = "SUCCESS"
    /\ last_req = [transition |-> "NULL_TO_READY", called |-> "start_servers"]
    /\ last_call = "start"
    /\ last_ok = "start"
    /\ found = NoFind
    /\ inflight = <<>>
    /\ queues = <<>>
    /\ produced = 0
    /\ producer = "running"

\* The active element under every client id, codec preference and failure of
\* the environment.
NextBuild ==
    \/ \E client_id \in ClientIds, codec_preference \in CodecPreferences :
          create_webrtcbin(client_id, codec_preference, FailPoints)
    \/ \E k \in 1..MaxCalls : teardown(k)

SpecBuild == InitActive /\ [][NextBuild]_vars

(***************************************************************************)
(* create_webrtcbin calls that run at the same time, one statement of one  *)
(* call at a time.  Each GStreamer call and each dict write is atomic      *)
(* (object locks, the interpreter lock); the code takes no lock of its own.*)
(***************************************************************************)

\* The client ids of the calls, in the order the calls are entered.
ConcurrentClients == <<"A", "B", None>>

\* What a call keeps between two statements: its locals.  The shared state
\* is in the element, not in the frame.
Locals(w) ==
    [w EXCEPT !.client_codecs = <<>>, !.bin = {}, !.tee_pads = {}, !.links = {}]

\* A frame that works on a bin, a tee and a dict of its own.
SharedStale(w) == w

\* A frame at its next statement: self.client_codecs, the bin, the tee and
\* the pads are the shared ones.
Shared(w) ==
    [w EXCEPT !.client_codecs = client_codecs, !.bin = bin,
              !.tee_pads = tee_pads, !.links = links]

\* A call is entered: nothing but the log line has run.
create_webrtcbin_enter(codec_preference) ==
    /\ SignalingRuns
    /\ ncalls < MaxBuilders
    /\ ncalls < Len(ConcurrentClients)
    /\ inflight' = Append(inflight,
                          Locals(Frame(ncalls + 1, ConcurrentClients[ncalls + 1],
                                       codec_preference, {})))
    /\ ncalls' = ncalls + 1
    /\ callers' = Append(callers, ConcurrentClients[ncalls + 1])
    /\ UNCHANGED <<registry, video_codec, client_codecs, bin, tee_pads, links,
                   handles, last, found, life_vars, flow_vars>>

\* Call k runs its next statement.
create_webrtcbin_step(k) ==
    /\ k \in DOMAIN inflight
    /\ inflight[k].pc # "done"
    /\ \E w \in {Step(Shared(inflight[k]))} :
          /\ inflight' = [inflight EXCEPT ![k] = Locals(w)]
          /\ client_codecs' = w.client_codecs
          /\ bin' = w.bin
          /\ tee_pads' = w.tee_pads
          /\ links' = w.links
    /\ UNCHANGED <<registry, video_codec, ncalls, callers, handles, last, found,
                   life_vars, flow_vars>>

\* Call k hands its result to the signaling server.
create_webrtcbin_return(k) ==
    /\ k \in DOMAIN inflight
    /\ inflight[k].pc = "done"
    /\ inflight[k].result = "handle"
    /\ k \notin handles
    /\ handles' = handles \cup {k}
    /\ UNCHANGED <<registry, video_codec, client_codecs, bin, tee_pads, links,
                   ncalls, callers, last, found, inflight, life_vars,
                   flow_vars>>

\* Calls for distinct client ids under every interleaving of their
\* statements, in an environment that fails no step.
NextConcurrent ==
    \/ \E codec_preference \in {None, "h264"} :
          create_webrtcbin_enter(codec_preference)
    \/ \E k \in 1..MaxBuilders : create_webrtcbin_step(k)
    \/ \E k \in 1..MaxBuilders : create_webrtcbin_return(k)

SpecConcurrent == InitActive /\ [][NextConcurrent]_vars

(***************************************************************************)
(* Buffers: the producer's streaming thread pushes into the tee, the tee   *)
(* into the queue of every branch, and each branch takes buffers out of    *)
(* its queue at its own pace.                                              *)
(***************************************************************************)

\* self.tee.set_property('allow-not-linked', True)
TeeAllowNotLinked == TRUE

\* A queue that leaks nothing (leaky = 0, the default of the element).
QueueNotLeaky(k) == 0

\* queue.set_property('leaky', 2): 0 no, 1 upstream, 2 downstream.
QueueLeaky(k) == 2

\* The queue of branch k; empty until a buffer reaches it.
QueueOf(k) == IF k \in DOMAIN queues THEN queues[k] ELSE [buf |-> <<>>, taken |-> 0]

\* The tee pads that are linked to a queue.
LinkedPads == {k \in tee_pads : [k |-> k, link |-> "tee_queue"] \in links}

\* A full queue that does not leak makes the pushing thread wait.
Blocks(k) == Len(QueueOf(k).buf) >= QueueSize /\ QueueLeaky(k) = 0

\* The chain function of the queue: a full queue drops the incoming buffer
\* (leaky upstream) or its oldest one (leaky downstream).
Enqueue(k, buffer) ==
    LET q == QueueOf(k)
    IN IF Len(q.buf) < QueueSize THEN [q EXCEPT !.buf = Append(@, buffer)]
       ELSE IF QueueLeaky(k) = 2 THEN [q EXCEPT !.buf = Append(Tail(@), buffer)]
       ELSE q

\* The producer pushes one buffer into the tee.  A tee none of whose pads is
\* linked refuses the buffer unless it allows unlinked pads.
push ==
    /\ producer = "running"
    /\ produced < MaxBuffers
    /\ IF \E k \in LinkedPads : Blocks(k)
       THEN /\ producer' = "blocked"
            /\ UNCHANGED <<queues, produced>>
       ELSE IF LinkedPads = {} /\ ~TeeAllowNotLinked
       THEN /\ producer' = "not-linked"
            /\ UNCHANGED <<queues, produced>>
       ELSE /\ queues' = [k \in (DOMAIN queues) \cup LinkedPads |->
                             IF k \in LinkedPads
                             THEN Enqueue(k, produced + 1)
                             ELSE queues[k]]
            /\ produced' = produced + 1
            /\ UNCHANGED producer
    /\ UNCHANGED <<registry, video_codec, client_codecs, bin, tee_pads, links,
                   ncalls, callers, handles, last, found, inflight, life_vars>>

\* The client of branch k takes a buffer: the queue's thread hands its oldest
\* buffer to the encoder; a producer that waited for room goes on.
consume(k) ==
    /\ k \in LiveBranches
    /\ QueueOf(k).buf # <<>>
    /\ queues' = [queues EXCEPT ![k] = [buf |-> Tail(@.buf), taken |-> @.taken + 1]]
    /\ producer' = IF producer = "blocked" THEN "running" ELSE producer
    /\ UNCHANGED <<registry, video_codec, client_codecs, bin, tee_pads, links,
                   ncalls, callers, handles, last, found, inflight, produced,
                   life_vars>>

\* The element with a vp8 encoder, once activated.
InitFlow == InitActive /\ registry = <<vp8enc>> /\ video_codec = "vp8"

\* Branches come and go while the producer pushes and each client takes
\* buffers at any pace, or never.
NextFlow ==
    \/ \E client_id \in {"A", "B", None} : create_webrtcbin(client_id, None, {})
    \/ \E k \in 1..MaxCalls : teardown(k)
    \/ push
    \/ \E k \in 1..MaxCalls : consume(k)

SpecFlow == InitFlow /\ [][NextFlow]_vars

\* self.find_best_encoder(codec_name), called on its own.
lookup(codec_name) ==
    /\ \E r \in {find_best_encoder(registry, codec_name)} :
          found' = [codec_name |-> codec_name, encoder |-> r.encoder,
                    payloader |-> r.payloader]
    /\ UNCHANGED <<registry, video_codec, client_codecs, bin, tee_pads, links,
                   ncalls, callers, handles, last, life_vars,
                   flow_vars, inflight>>

\* The element as constructed, against every registry of at most
\* MaxFactories factories.
InitFind ==
    /\ registry \in RegistriesUpTo(MaxFactories)
    /\ video_codec = "vp8"
    /\ client_codecs = [x \in {} |-> None]
    /\ bin = {convert, tee}
    /\ tee_pads = {}
    /\ links = {}
    /\ ncalls = 0
    /\ callers = <<>>
    /\ handles = {}
    /\ last = NoCall
    /\ pc = "idle"
    /\ servers_started = FALSE
    /\ http_server = None
    /\ http_thread = None
    /\ signaling = None
    /\ signaling_thread = None
    /\ rc = None
    /\ last_req = [transition |-> None, called |-> None]
    /\ last_call = None
    /\ last_ok = None
    /\ found = NoFind
    /\ inflight = <<>>
    /\ queues = <<>>
    /\ produced = 0
    /\ producer = "running"

\* find_best_encoder for every codec name.
NextFind == \E codec_name \in KnownCodecs \cup {"bogus"} : lookup(codec_name)

SpecFind == InitFind /\ [][NextFind]_vars

(***************************************************************************)
(* Properties                                                              *)
(***************************************************************************)

\* A create_webrtcbin call is the step from this state to the next.
BuildStep == ncalls' = ncalls + 1

\* The elements of a sequence.
Range(seq) == {seq[i] : i \in 1..Len(seq)}

\* No client id has called create_webrtcbin twice.
DistinctCallers ==
    \A i, j \in 1..Len(callers) : i # j => callers[i] # callers[j]

\* The registry holds an encoder for the codec.
HasEncoder(codec_name) ==
    codec_name \in KnownCodecs /\ encoder_factories(registry, codec_name) # <<>>

\* C1: a create_webrtcbin call that returns no handle leaves the tee's request
\* pads, the children of the bin and the size of client_codecs as they were; a
\* call that returns a handle leaves queue, encoder, payloader and webrtcbin in
\* the bin, linked tee -> queue -> encoder -> payloader -> webrtcbin.
C1_AllOrNothing ==
    [][BuildStep =>
         IF last'.result = "handle"
         THEN LiveBranch(bin', tee_pads', links', last'.k)
         ELSE /\ Cardinality(tee_pads') = Cardinality(tee_pads)
              /\ bin' = bin
              /\ Cardinality(DOMAIN client_codecs') = Cardinality(DOMAIN client_codecs)
      ]_vars

\* C2: as long as the calls come from distinct client ids, the live branches
\* and the tee's request pads are as many as the builds that returned a handle
\* and were not torn down since, and client_codecs has entries for the clients
\* of those builds only.
C2_LiveEqualsUnmatched ==
    DistinctCallers =>
        /\ Cardinality(LiveBranches) = Cardinality(handles)
        /\ Cardinality(tee_pads) = Cardinality(handles)
        /\ DOMAIN client_codecs \subseteq {ClientOf(k) : k \in handles}

\* C3: one create_webrtcbin call looks up at most one codec after the one it
\* was asked for, and that one is the configured default (video_codec).
C3_OneFallback ==
    last.k > 0 =>
        /\ Len(last.lookups) <= 2
        /\ Len(last.lookups) = 2 => last.lookups[2] = video_codec

\* C4: when the registry has an encoder neither for the requested codec nor
\* for the default codec, create_webrtcbin returns no handle, requests no tee
\* pad, leaves the bin as it was and creates no client_codecs entry.
C4_NoEncoderNoEffect ==
    [][(BuildStep /\ last'.codec_to_use # None
          /\ ~HasEncoder(last'.codec_to_use) /\ ~HasEncoder(video_codec)) =>
         /\ last'.result = None
         /\ tee_pads' = tee_pads
         /\ bin' = bin
         /\ DOMAIN client_codecs' = DOMAIN client_codecs
      ]_vars

\* C5: once do_change_state(READY_TO_NULL) has called stop_servers and
\* returned, no branch is live, the tee has no request pad and
\* servers_started is False.
C5_DeactivateTearsDown ==
    (pc = "idle" /\ last_req.called = "stop_servers") =>
        /\ LiveBranches = {}
        /\ tee_pads = {}
        /\ ~servers_started

\* start_servers / stop_servers is called, start_servers runs to its end.
StartCalled == pc = "idle" /\ pc' = "bind"
StopCalled == pc = "idle" /\ pc' = "stop_http"
StartCompleted == pc = "sleep" /\ pc' = "idle"

\* C6 as stated: start_servers is not called while the servers are started,
\* stop_servers is not called while they are not, and the calls of the two
\* strictly alternate, start_servers first.
C6_CallsAlternate ==
    [][/\ StartCalled => (~servers_started /\ last_call # "start")
       /\ StopCalled => (servers_started /\ last_call = "start")
      ]_vars

\* C6 as amended: start_servers is not called while servers_started is True,
\* stop_servers is not called while it is False, and the start_servers calls
\* that run to their end strictly alternate with the stop_servers calls,
\* start_servers first.
C6_CompletedStartsAlternate ==
    [][/\ StartCalled => ~servers_started
       /\ StartCompleted => last_ok # "start"
       /\ StopCalled => (servers_started /\ last_ok = "start")
      ]_vars

\* An activate request found the servers started and called nothing.
C6_Witness ==
    /\ pc = "idle"
    /\ servers_started
    /\ last_req = [transition |-> "NULL_TO_READY", called |-> None]
    /\ last_ok = "start"

\* C7: when do_change_state has returned FAILURE, servers_started is False
\* and neither an HTTP server nor a signaling server is left.
C7_FailedStartIsIdle ==
    (pc = "idle" /\ rc = "FAILURE") =>
        /\ ~servers_started
        /\ http_server = None
        /\ signaling = None

\* C8: create_webrtcbin is called in the Active lifecycle state only.
C8_BuildsOnlyWhenActive ==
    [][BuildStep => Lifecycle = "Active"]_vars

\* C9: a build whose four links succeeded and in which a tuning write failed
\* returns the webrtcbin handle and leaves the branch in place.
C9_TuningBestEffort ==
    [][(/\ BuildStep
        /\ Op("link", "payloader_webrtcbin") \in Range(last'.log)
        /\ \E o \in Range(last'.log) : o.op = "tune_failed") =>
         /\ last'.result = "handle"
         /\ LiveBranch(bin', tee_pads', links', last'.k)
      ]_vars

\* C10: no client id has more than one live branch.
C10_OneBranchPerClient ==
    \A client_id \in ClientIds :
        Cardinality({k \in LiveBranches : ClientOf(k) = client_id}) <= 1

\* A second call for a client id (None) whose branch is live came back
\* without a handle, rolled back at the queue -> encoder link.
C10_Witness ==
    /\ ncalls = 2
    /\ callers = <<None, None>>
    /\ LiveBranches = {1}
    /\ last.k = 2
    /\ last.result = None
    /\ Op("link_failed", "queue_encoder") \in Range(last.log)

\* The tuning statements a call ran, in order.
TuningOf(log) == SelectSeq(log, LAMBDA o : o.op \in {"tune", "tune_failed"})

\* What a build comes to: the pair chosen, the tuning applied, success or
\* failure, and the content of client_codecs after it.
Outcome(encoder_name, payloader_name, log, result, codecs) ==
    [encoder |-> encoder_name, payloader |-> payloader_name,
     tuning |-> TuningOf(log), result |-> result, client_codecs |-> codecs]

\* C11: a build with an unknown codec name as its preference comes to an
\* outcome that a build for the same client with preference None, started in
\* the same state, comes to as well: same encoder and payloader, same tuning,
\* same result, same client_codecs.
C11_UnknownIsNoPreference ==
    [][(BuildStep /\ last'.codec_preference \notin KnownCodecs \cup {None}) =>
         \E w \in Run(Frame(ncalls + 1, last'.client_id, None, FailPoints)) :
             Outcome(w.encoder_name, w.payloader_name, w.log, w.result,
                     w.client_codecs)
               = Outcome(last'.encoder_name, last'.payloader_name, last'.log,
                         last'.result, client_codecs')
      ]_vars

\* The places in the registry of the factories find_best_encoder selects
\* from: encoders whose source caps intersect the codec's caps.
Candidates(codec_name) ==
    {i \in 1..Len(registry) : IsCandidate(registry[i], codec_caps(codec_name))}

\* C12: when the registry holds an encoder for the codec, find_best_encoder
\* returns the one of the highest rank, and of those of that rank the first in
\* discovery order.
C12_HighestRankFirstWins ==
    (found.codec_name \in KnownCodecs /\ Candidates(found.codec_name) # {}) =>
        \E i \in Candidates(found.codec_name) :
            /\ found.encoder = registry[i].name
            /\ \A j \in Candidates(found.codec_name) :
                   /\ registry[j].rank <= registry[i].rank
                   /\ registry[j].rank = registry[i].rank => i <= j

\* A lookup settled between two encoders of the highest rank, in a registry
\* that holds a factory of a higher rank that is no encoder.
C12_Witness ==
    /\ found.codec_name = "h264"
    /\ \E i, j \in Candidates("h264") :
          /\ i < j
          /\ registry[i].rank = registry[j].rank
          /\ found.encoder = registry[i].name
    /\ \E l \in 1..Len(registry) :
          /\ l \notin Candidates("h264")
          /\ registry[l].rank > MaxRank(encoder_factories(registry, "h264"))

\* A create_webrtcbin call for the client, in an environment that fails no
\* step, returns a handle when started on this bin, these tee pads and links.
Succeeds(k, client_id, codec_preference, codecs, b, pads, lks) ==
    \E w \in Run([Frame(k, client_id, codec_preference, {}) EXCEPT
                     !.client_codecs = codecs, !.bin = b,
                     !.tee_pads = pads, !.links = lks]) :
        w.result = "handle"

\* C13: a create_webrtcbin call that returns no handle leaves the elements,
\* links and tee pads of every earlier call and the client_codecs entries of
\* every other client as they were, and every build that would have succeeded
\* before it succeeds after it.
C13_FailureIsIsolated ==
    [][(BuildStep /\ last'.result # "handle") =>
         /\ \A k \in 1..ncalls :
               /\ {e \in bin' : e.k = k} = {e \in bin : e.k = k}
               /\ {l \in links' : l.k = k} = {l \in links : l.k = k}
               /\ (k \in tee_pads') = (k \in tee_pads)
         /\ \A c \in (DOMAIN client_codecs) \ {last'.client_id} :
               c \in DOMAIN client_codecs' /\ client_codecs'[c] = client_codecs[c]
         /\ \A c \in ClientIds, p \in {None} \cup DefaultCodecs :
               Succeeds(ncalls + 2, c, p, client_codecs, bin, tee_pads, links)
                 => Succeeds(ncalls + 2, c, p, client_codecs', bin', tee_pads', links')
      ]_vars

\* The effective codec of a build: the preference when it names a codec the
\* registry has an encoder for, the configured default otherwise.
EffectiveCodec(codec_preference) ==
    IF codec_preference # None /\ HasEncoder(codec_preference)
    THEN codec_preference
    ELSE video_codec

\* C14: after a create_webrtcbin call for a client id that returned a
\* handle, client_codecs has an entry for that client, and it is the
\* effective codec of the build.
C14_RecordsEffectiveCodec ==
    [][(BuildStep /\ last'.result = "handle" /\ last'.client_id # None) =>
         /\ last'.client_id \in DOMAIN client_codecs'
         /\ client_codecs'[last'.client_id] = EffectiveCodec(last'.codec_preference)
      ]_vars

\* Call k, running alone on the element as constructed, returns a handle.
SucceedsAlone(k) ==
    Succeeds(k, inflight[k].client_id, inflight[k].codec_preference,
             <<>>, {convert, tee}, {}, {})

\* C15: of create_webrtcbin calls for distinct client ids that run at the
\* same time, each one that returns a handle when it runs alone returns a
\* handle under every interleaving, and from its end on its own tee pad, queue,
\* encoder, payloader and webrtcbin are in the bin and linked.
C15_ConcurrentBuildsSucceed ==
    \A k \in DOMAIN inflight :
        (inflight[k].pc = "done" /\ SucceedsAlone(k)) =>
            /\ inflight[k].result = "handle"
            /\ LiveBranch(bin, tee_pads, links, k)

\* The second call has run from its entry to its end and handed out its
\* handle while the first, entered before it, stands between its links with
\* its tee pad acquired.
C15_Witness ==
    /\ Len(inflight) >= 2
    /\ inflight[1].pc = "link_encoder_payloader"
    /\ 1 \in tee_pads
    /\ 2 \in handles
    /\ inflight[2].result = "handle"
    /\ LiveBranch(bin, tee_pads, links, 2)

\* The places of a statement in the log of a call.
Places(log, op, arg) == {i \in 1..Len(log) : log[i] = Op(op, arg)}

\* C16: in a create_webrtcbin call that made elements and returned None, each
\* of queue, encoder, payloader and webrtcbin that was made is set to NULL,
\* and before it is removed from the bin; every link that was made is
\* unlinked; the tee pad that was requested is released.
C16_RollbackOrder ==
    [][(BuildStep /\ last'.result = None) =>
         /\ \A role \in Roles :
               Places(last'.log, "make", role) # {} =>
                   /\ Places(last'.log, "set_null", role) # {}
                   /\ \A j \in Places(last'.log, "remove", role) :
                          \E i \in Places(last'.log, "set_null", role) : i < j
         /\ \A l \in LinkNames :
               Places(last'.log, "link", l) # {} =>
                   Places(last'.log, "unlink", l) # {}
         /\ Places(last'.log, "request_pad", "tee") # {} =>
               Places(last'.log, "release_pad", "tee") # {}
      ]_vars

\* The places of the statements of one kind in the log of a call.
PlacesOf(log, ops) == {i \in 1..Len(log) : log[i].op \in ops}

\* Every place of the first set comes before every place of the second.
AllBefore(first, second) == \A i \in first, j \in second : i < j

\* C17: in a create_webrtcbin call that returned a handle, the encoder is
\* looked up before any element is made, the tee pad is requested before any
\* link, the links are made tee -> queue, queue -> encoder, encoder ->
\* payloader, payloader -> webrtcbin, the tuning follows the last link, and
\* the elements are synchronised with the parent after the tuning.
C17_StepsInOrder ==
    [][(BuildStep /\ last'.result = "handle") =>
         /\ AllBefore(PlacesOf(last'.log, {"find"}), PlacesOf(last'.log, {"make"}))
         /\ AllBefore(PlacesOf(last'.log, {"request_pad"}), PlacesOf(last'.log, {"link"}))
         /\ AllBefore(Places(last'.log, "link", "tee_queue"),
                      Places(last'.log, "link", "queue_encoder"))
         /\ AllBefore(Places(last'.log, "link", "queue_encoder"),
                      Places(last'.log, "link", "encoder_payloader"))
         /\ AllBefore(Places(last'.log, "link", "encoder_payloader"),
                      Places(last'.log, "link", "payloader_webrtcbin"))
         /\ AllBefore(PlacesOf(last'.log, {"link"}),
                      PlacesOf(last'.log, {"tune", "tune_failed"}))
         /\ AllBefore(PlacesOf(last'.log, {"tune", "tune_failed"}),
                      PlacesOf(last'.log, {"sync"}))
         /\ AllBefore(PlacesOf(last'.log, {"link"}), PlacesOf(last'.log, {"sync"}))
      ]_vars

C19_TuningMatchesCodec ==
    [][(BuildStep /\ TuningOf(last'.log) # <<>>) =>
         /\ last'.payloader_name = payloader_map("h264")
         /\ \E f \in Range(registry) :
               /\ f.name = last'.encoder_name
               /\ codec_caps("h264") \in f.src_caps
      ]_vars

\* C20: every self.remove(element) of a create_webrtcbin call is given an
\* element that is in the bin at that moment.
C20_RemovesOnlyChildren == last.bad_removes = 0

\* C21: the encoder and the payloader that a create_webrtcbin call settles
\* on, through the vp8 recursion of find_best_encoder and the default-codec
\* fallback alike, belong to one codec, the last one looked up: the encoder is
\* a candidate for its caps, the payloader is its fixed payloader.
C21_PairOfOneCodec ==
    (last.encoder_name # None /\ last.payloader_name # None) =>
        LET codec_name == last.lookups[Len(last.lookups)]
        IN /\ codec_name \in KnownCodecs
           /\ last.payloader_name = payloader_map(codec_name)
           /\ \E f \in Range(registry) :
                 /\ f.name = last.encoder_name
                 /\ IsCandidate(f, codec_caps(codec_name))

\* A call whose pair came through both: the preference was unknown, the
\* default h264 had no encoder, and the vp8 recursion found one.
C21_Witness ==
    /\ last.lookups = <<"bogus", "h264", "vp8">>
    /\ last.codec_to_use = "bogus"
    /\ last.encoder_name = "vp8enc"
    /\ last.payloader_name = "rtpvp8pay"
    /\ last.result = "handle"

====
